---- MODULE Spec2Model ----
(***************************************************************************)
(* Model of src/service-worker.js: the Blood Eagle service worker.         *)
(*                                                                         *)
(* State: the origin's CacheStorage (store name -> request URL -> entry),  *)
(* the worker's lifecycle, the asynchronous tasks in flight (intercepted   *)
(* fetches, storeGameData, getStoredGameData, one cleanupOldData pass) and *)
(* a clock in hours.  Every await of the source is a step boundary.        *)
(***************************************************************************)
EXTENDS Integers, Sequences, FiniteSets, Bags, TLC

VARIABLES
  caches,      \* CacheStorage: [store name -> [URL -> entry]], DOMAIN = existing stores
  lifecycle,   \* position of the install / activate handlers
  inst,        \* what the install handler did (outcome of addAll, waitUntil promise)
  act,         \* what the activate handler saw and still has to delete
  tasks,       \* bag of asynchronous tasks in flight
  sweep,       \* the cleanupOldData pass in flight (or idle)
  now,         \* Date.now(), in hours
  steps,       \* the clock advances still to come
  nEvents,     \* number of events dispatched so far (bounded)
  serverVersion, \* version the origin server currently deploys
  last,        \* the last thing the worker let out: a request passed through,
               \* a response given to respondWith, a reply posted to a port
  gd,          \* history of the ProgressRecord: last payload sent, other writes since
  sync,        \* the doBackgroundSync cycle in flight, or the last one completed
  msg          \* the message event the general message listener handled last

vars == <<caches, lifecycle, inst, act, tasks, sweep, now, steps, nEvents,
          serverVersion, last, gd, sync, msg>>

----------------------------------------------------------------------------
(* Bounds of the model *)

MaxTasks == 2
MaxEvents == 3

\* Date.now() when the worker script is first evaluated, in hours since the epoch
StartClock == 1000

\* The clock advances of a run, in hours, taken in any order: 6 days 23 hours
\* and 2 hours, so that an entry is seen at the ages 2, 167 and 169 hours
ClockSteps == {167, 2}

----------------------------------------------------------------------------
(* Program constants *)

CACHE_NAME == "blood-eagle-v1.0.0"
\* stores left by the two previous versions of the worker
OLD_CACHE == "blood-eagle-v0.9.0"
OLDER_CACHE == "blood-eagle-v0.8.0"

\* 7 * 24 * 60 * 60 * 1000 ms, in hours
maxAge == 168

\* URLs are sequences of tokens, so that startsWith / includes keep their meaning
SELF == "https://game.example"
FONTS_HOST == "fonts.googleapis.com"
CDN_HOST == "cdnjs.cloudflare.com"

U_ROOT == <<SELF, "/">>
U_INDEX == <<SELF, "/index_new.html">>
U_GAME == <<SELF, "/blood_eagle_game.html">>
U_MANIFEST == <<SELF, "/manifest.json">>
U_SW == <<SELF, "/service-worker.js">>
U_FONTS == <<"https://", FONTS_HOST, "/css2?family=Tajawal">>
U_CDN == <<"https://", CDN_HOST, "/ajax/libs/font-awesome/6.5.1/css/all.min.css">>

STATIC_ASSETS == <<U_ROOT, U_INDEX, U_GAME, U_MANIFEST, U_SW, U_FONTS, U_CDN>>

\* 'index_new.html' resolved against the worker's script URL
OFFLINE_URL == U_INDEX

\* '/game-data' resolved against the worker's script URL
GAME_DATA == <<SELF, "/game-data">>

----------------------------------------------------------------------------
(* URLs and requests *)

U_PLAY == <<SELF, "/play">>
U_EVIL == <<"https://", "evil.example", "/">>
U_EVIL_QUERY == <<"https://", "evil.example", "/?ref=", FONTS_HOST>>
U_SUFFIX == <<SELF, ".evil.example", "/">>

\* String.prototype.startsWith / includes on token sequences
StartsWith(url, prefix) ==
  /\ Len(url) >= Len(prefix)
  /\ SubSeq(url, 1, Len(prefix)) = prefix

Includes(url, token) == \E i \in 1..Len(url) : url[i] = token

\* The origin a URL really has (what the platform uses for the response type)
SameOrigin(url) == url[1] = SELF /\ url[2] \notin {".evil.example"}

Req(m, u, md) == [method |-> m, url |-> u, mode |-> md]

\* the requests the pages make: navigations to a precached and to another
\* page, a stylesheet of an allow-listed host, a foreign resource, and posts
Requests ==
  { Req("GET", U_INDEX, "navigate"),
    Req("GET", U_PLAY, "navigate"),
    Req("GET", U_FONTS, "no-cors"),
    Req("GET", U_EVIL, "no-cors"),
    Req("POST", U_PLAY, "cors"),
    Req("POST", U_FONTS, "cors") }

NoReq == Req("", <<>>, "")

----------------------------------------------------------------------------
(* JSON values, JSON.stringify and Response.json() *)

JVal(t, v) == [t |-> t, v |-> v]
JNull == JVal("null", "")
JNum == JVal("number", "7")
JNaN == JVal("number", "NaN")
JStr == JVal("string", "lvl")
JObj == JVal("object", "7")          \* {"level": 7}
JUndefined == JVal("undefined", "")  \* a message without gameData
NoPayload == JVal("none", "")        \* history only: nothing sent yet

\* the values a JSON text can denote
IsJSON(x) == x \in {JNull, JNum, JStr, JObj}

\* JSON.stringify(x) as a token sequence; undefined gives no text at all,
\* and new Response(undefined) has an empty body
Stringify(x) ==
  CASE x.t = "undefined" -> <<>>
    [] x.t = "null" -> <<"null">>
    [] x.t = "number" -> IF x.v = "NaN" THEN <<"null">> ELSE <<x.v>>
    [] x.t = "string" -> <<"\"", x.v, "\"">>
    [] x.t = "object" -> <<"{", "\"level\"", ":", x.v, "}">>

ParseError == JVal("SyntaxError", "")

\* JSON.parse of a body text
Parse(text) ==
  CASE Len(text) = 1 /\ text[1] = "null" -> JNull
    [] Len(text) = 1 /\ text[1] # "null" -> JVal("number", text[1])
    [] Len(text) = 3 /\ text[1] = "\"" /\ text[3] = "\"" -> JVal("string", text[2])
    [] Len(text) = 5 /\ text[1] = "{" /\ text[5] = "}" -> JVal("object", text[4])
    [] OTHER -> ParseError

----------------------------------------------------------------------------
(* Responses and cache entries *)

\* a response: status, type, body text, Date header (<<>> when absent)
Resp(st, ty, b, d) == [status |-> st, type |-> ty, body |-> b, date |-> d]

NoResp == Resp(0, "none", <<>>, <<>>)

\* what the server of url answers with at version ver, at clock t
NetBody(url, ver) ==
  IF url = U_MANIFEST THEN <<"{", "\"version\"", ":", ver, "}">>
  ELSE <<"doc", ver>> \o url

\* same-origin: basic; cross-origin: cors, or opaque (status 0) in no-cors mode
NetOk(url, mode, ver, t) ==
  IF SameOrigin(url) THEN Resp(200, "basic", NetBody(url, ver), <<t>>)
  ELSE IF mode = "no-cors" THEN Resp(0, "opaque", <<>>, <<>>)
  ELSE Resp(200, "cors", NetBody(url, ver), <<t>>)

NetNotFound(url, t) ==
  Resp(404, IF SameOrigin(url) THEN "basic" ELSE "cors", <<"not found">>, <<t>>)

\* a cache entry: the stored response, plus when and by whom it was written
Entry(r, t, who) == [resp |-> r, storedAt |-> t, by |-> who]

EmptyCache == [u \in {} |-> Entry(NoResp, 0, "")]

\* cache.put(url, r) on one store: the entry for url is replaced
Put(cache, url, r, t, who) ==
  [u \in (DOMAIN cache) \cup {url} |->
     IF u = url THEN Entry(r, t, who) ELSE cache[u]]

\* cache.delete(url) on one store
Delete(cache, url) == [u \in (DOMAIN cache) \ {url} |-> cache[u]]

\* caches.open(name): the store is created when it does not exist
Open(cs, name) ==
  [n \in (DOMAIN cs) \cup {name} |-> IF n \in DOMAIN cs THEN cs[n] ELSE EmptyCache]

\* caches.delete(name)
DeleteStore(cs, name) == [n \in (DOMAIN cs) \ {name} |-> cs[n]]

\* stores in the order caches.match searches them (creation order)
StoreOrder == <<OLDER_CACHE, OLD_CACHE, CACHE_NAME>>

\* caches.match(url): the entry of the first store that has one, else undefined
HasMatch(cs, url) == \E n \in DOMAIN cs : url \in DOMAIN cs[n]

CachesMatch(cs, url) ==
  LET hits == {i \in 1..Len(StoreOrder) :
                 StoreOrder[i] \in DOMAIN cs /\ url \in DOMAIN cs[StoreOrder[i]]}
      first == CHOOSE i \in hits : \A j \in hits : i <= j
  IN cs[StoreOrder[first]][url].resp

Range(seq) == {seq[i] : i \in 1..Len(seq)}

----------------------------------------------------------------------------
(* History kept with the state, read by the properties only *)

\* the sweeper's streak of undisturbed passes: a write, a clock advance or an
\* aborted pass ends it
Disturbed(sw) == [sw EXCEPT !.streak = "none"]

\* a write to the ProgressRecord other than the put of the latest STORE_GAME_DATA
OtherWrite(g) == [g EXCEPT !.dirty = TRUE]

Out(k, r, rs, d, e, h, nf) ==
  [kind |-> k, req |-> r, resp |-> rs, data |-> d, expect |-> e, hit |-> h,
   netFailed |-> nf]

----------------------------------------------------------------------------
(* Tasks in flight *)

Task(k, p, r, d, f) == [kind |-> k, pc |-> p, req |-> r, data |-> d, flag |-> f]

\* the asynchronous activities in flight: the tasks and the sweeper's pass
InFlight == BagCardinality(tasks) + (IF sweep.pc = "idle" THEN 0 ELSE 1)

One(t) == SetToBag({t})

Tasks == BagToSet(tasks)

\* a get in flight saw another write to the record
DirtyGets(ts) ==
  LET dirtied(t) == IF t.kind = "get" THEN [t EXCEPT !.flag = TRUE] ELSE t
      S == BagToSet(ts)
      T == {dirtied(t) : t \in S}
      count(u) == LET pre == {t \in S : dirtied(t) = u}
                      RECURSIVE Sum(_)
                      Sum(P) == IF P = {} THEN 0
                                ELSE LET x == CHOOSE x \in P : TRUE
                                     IN ts[x] + Sum(P \ {x})
                  IN Sum(pre)
  IN [u \in T |-> count(u)]

\* the puts of earlier STORE_GAME_DATA messages are no longer the latest
Superseded(ts) ==
  LET older(t) == IF t.kind = "store" THEN [t EXCEPT !.flag = FALSE] ELSE t
      S == BagToSet(ts)
      T == {older(t) : t \in S}
      count(u) == LET pre == {t \in S : older(t) = u}
                      RECURSIVE Sum(_)
                      Sum(P) == IF P = {} THEN 0
                                ELSE LET x == CHOOSE x \in P : TRUE
                                     IN ts[x] + Sum(P \ {x})
                  IN Sum(pre)
  IN [u \in T |-> count(u)]

----------------------------------------------------------------------------
(* Background sync cycles and message events *)

\* one run of doBackgroundSync: where it is, the record it read, how the POST
\* ended, the version read from the cached manifest, the notifications shown
SyncCycle(p, d, po, m, n) ==
  [pc |-> p, data |-> d, post |-> po, manifest |-> m, notified |-> n]

NoSync == SyncCycle("idle", NoPayload, "none", "unread", 0)

\* a message event: whether event.data is there, its type, its gameData, and
\* whether event.ports holds a port
Message(hasData, type, gameData, hasPort) ==
  [data |-> hasData, type |-> type, gameData |-> gameData, port |-> hasPort]

NoMsg == Message(FALSE, "none", NoPayload, FALSE)

----------------------------------------------------------------------------
(* Initial state: the script has been evaluated, nothing has run *)

PriorEntry(url) == Entry(NetOk(url, "cors", "0.9.0", StartClock), StartClock, "prior")

\* CacheStorage before this version installs: the stores of the previous versions
InitialStores ==
  [n \in {OLDER_CACHE, OLD_CACHE} |-> [u \in {U_ROOT} |-> PriorEntry(U_ROOT)]]

Init ==
  /\ caches = InitialStores
  /\ lifecycle = "parsed"
  /\ inst = [anyFailed |-> FALSE, promise |-> "pending", skipWaiting |-> FALSE]
  /\ act = [seen |-> {}, todo |-> {}]
  /\ tasks = EmptyBag
  /\ sweep = [pc |-> "idle", todo |-> <<>>, streak |-> "none", removed |-> FALSE]
  /\ now = StartClock
  /\ steps = ClockSteps
  /\ nEvents = 0
  /\ serverVersion = "2.0.0"
  /\ last = Out("none", NoReq, NoResp, NoPayload, NoPayload, FALSE, FALSE)
  /\ gd = [sent |-> NoPayload, dirty |-> FALSE]
  /\ sync = NoSync
  /\ msg = NoMsg

----------------------------------------------------------------------------
(* install listener, lines 20-37 *)

\* an addAll that writes each asset as its fetch succeeds
AddAllEach(cache, assets, failed, ver, t) ==
  [u \in (DOMAIN cache) \cup (Range(assets) \ failed) |->
     IF u \in Range(assets) THEN Entry(NetOk(u, "cors", ver, t), t, "install")
     ELSE cache[u]]

\* cache.addAll(assets): every asset is fetched; the entries are written only
\* when every fetch succeeded with an ok status, otherwise nothing is written
AddAll(cache, assets, failed, ver, t) ==
  IF failed \cap Range(assets) = {}
  THEN [u \in (DOMAIN cache) \cup Range(assets) |->
          IF u \in Range(assets) THEN Entry(NetOk(u, "cors", ver, t), t, "install")
          ELSE cache[u]]
  ELSE cache

\* the promise given to event.waitUntil: the chain ends in .catch(log), so it
\* resolves whether addAll resolved or rejected
InstallPromise(addAllOk) == "resolved"

\* the handler runs: caches.open(CACHE_NAME) is issued
InstallStart ==
  /\ lifecycle = "parsed"
  /\ lifecycle' = "installing"
  /\ UNCHANGED <<caches, inst, act, tasks, sweep, now, steps, nEvents,
                 serverVersion, last, gd,
                 sync, msg>>

\* caches.open resolves: the store exists from here on; cache.addAll is issued
InstallOpen ==
  /\ lifecycle = "installing"
  /\ lifecycle' = "caching"
  /\ caches' = Open(caches, CACHE_NAME)
  /\ UNCHANGED <<inst, act, tasks, sweep, now, steps, nEvents, serverVersion,
                 last, gd,
                 sync, msg>>

\* cache.addAll settles; on success self.skipWaiting() is called, on failure the
\* error is logged; either way the waitUntil promise settles
InstallAddAll ==
  /\ lifecycle = "caching"
  /\ \E failed \in SUBSET Range(STATIC_ASSETS) :
       LET ok == failed = {} IN
       /\ caches' = [caches EXCEPT ![CACHE_NAME] =
                       AddAll(caches[CACHE_NAME], STATIC_ASSETS, failed, serverVersion, now)]
       /\ inst' = [inst EXCEPT !.anyFailed = ~ok,
                               !.promise = InstallPromise(ok),
                               !.skipWaiting = ok]
  /\ lifecycle' = "installed"
  /\ UNCHANGED <<act, tasks, sweep, now, steps, nEvents, serverVersion, last, gd,
                 sync, msg>>

----------------------------------------------------------------------------
(* activate listener, lines 40-58 *)

\* a cleanup that knows the previous version's store only
IsPreviousCache(cacheName) == cacheName = OLD_CACHE

\* line 47: the stores the activate handler deletes
IsOldCache(cacheName) == cacheName # CACHE_NAME

\* the platform activates the installed worker; caches.keys() is issued
ActivateStart ==
  /\ lifecycle = "installed"
  /\ lifecycle' = "activating"
  /\ UNCHANGED <<caches, inst, act, tasks, sweep, now, steps, nEvents,
                 serverVersion, last, gd,
                 sync, msg>>

\* caches.keys() resolves; caches.delete is issued for every old store at once
ActivateKeys ==
  /\ lifecycle = "activating"
  /\ lifecycle' = "deleting"
  /\ act' = [act EXCEPT !.seen = DOMAIN caches,
                        !.todo = {n \in DOMAIN caches : IsOldCache(n)}]
  /\ UNCHANGED <<caches, inst, tasks, sweep, now, steps, nEvents, serverVersion,
                 last, gd,
                 sync, msg>>

\* one caches.delete completes
ActivateDelete ==
  /\ lifecycle = "deleting"
  /\ \E n \in act.todo :
       /\ caches' = DeleteStore(caches, n)
       /\ act' = [act EXCEPT !.todo = @ \ {n}]
  /\ UNCHANGED <<lifecycle, inst, tasks, sweep, now, steps, nEvents,
                 serverVersion, last, gd,
                 sync, msg>>

\* a handler that claims the clients as soon as the deletions are issued
ActivateClaimEarly ==
  /\ lifecycle = "deleting"
  /\ lifecycle' = "activated"
  /\ UNCHANGED <<caches, inst, act, tasks, sweep, now, steps, nEvents,
                 serverVersion, last, gd, sync, msg>>

\* Promise.all resolved: self.clients.claim(), the worker is active
ActivateClaim ==
  /\ lifecycle = "deleting"
  /\ act.todo = {}
  /\ lifecycle' = "activated"
  /\ UNCHANGED <<caches, inst, act, tasks, sweep, now, steps, nEvents,
                 serverVersion, last, gd,
                 sync, msg>>

----------------------------------------------------------------------------
(* message listener, lines 266-293 *)

\* events reach the worker once it is installed (waiting) or active; by then
\* the CACHE_NAME store exists, so caches.open(CACHE_NAME) finds it
Reachable == lifecycle \in {"installed", "activated"}

\* case 'SKIP_WAITING'
MsgSkipWaiting ==
  /\ Reachable /\ nEvents < MaxEvents
  /\ nEvents' = nEvents + 1
  /\ inst' = [inst EXCEPT !.skipWaiting = TRUE]
  /\ UNCHANGED <<caches, lifecycle, act, tasks, sweep, now, steps, serverVersion,
                 last, gd,
                 sync, msg>>

\* case 'GET_VERSION'
MsgGetVersion ==
  /\ Reachable /\ nEvents < MaxEvents
  /\ nEvents' = nEvents + 1
  /\ last' = Out("version", NoReq, NoResp, JVal("string", CACHE_NAME), NoPayload,
                 FALSE, FALSE)
  /\ UNCHANGED <<caches, lifecycle, inst, act, tasks, sweep, now, steps,
                 serverVersion, gd,
                 sync, msg>>

\* default: the type is logged
MsgUnknown ==
  /\ Reachable /\ nEvents < MaxEvents
  /\ nEvents' = nEvents + 1
  /\ UNCHANGED <<caches, lifecycle, inst, act, tasks, sweep, now, steps,
                 serverVersion, last, gd,
                 sync, msg>>

Payloads == {JObj, JUndefined}

\* case 'STORE_GAME_DATA': storeGameData(gameData) is called and not awaited;
\* it opens the store, builds the response and issues cache.put
MsgStore ==
  /\ Reachable /\ nEvents < MaxEvents /\ InFlight < MaxTasks
  /\ nEvents' = nEvents + 1
  /\ \E d \in Payloads :
       /\ tasks' = DirtyGets(Superseded(tasks)) (+) One(Task("store", "put", NoReq, d, TRUE))
       /\ gd' = [sent |-> d, dirty |-> FALSE]
  /\ UNCHANGED <<caches, lifecycle, inst, act, sweep, now, steps, serverVersion,
                 last,
                 sync, msg>>

\* case 'GET_STORED_DATA': getStoredGameData() opens the store and issues
\* cache.match('/game-data')
MsgGet ==
  /\ Reachable /\ nEvents < MaxEvents /\ InFlight < MaxTasks
  /\ nEvents' = nEvents + 1
  /\ tasks' = tasks (+) One(Task("get", "match", NoReq, gd.sent, gd.dirty))
  /\ UNCHANGED <<caches, lifecycle, inst, act, sweep, now, steps, serverVersion,
                 last, gd,
                 sync, msg>>

----------------------------------------------------------------------------
(* storeGameData, lines 296-310 *)

\* new Response(JSON.stringify(gameData), {headers: Content-Type}): no Date header
GameDataResponse(gameData) == Resp(200, "default", Stringify(gameData), <<>>)

\* cache.put('/game-data', response) completes
StorePut(t) ==
  /\ t.kind = "store" /\ t.pc = "put"
  /\ caches' = [Open(caches, CACHE_NAME) EXCEPT ![CACHE_NAME] =
                  Put(@, GAME_DATA, GameDataResponse(t.data), now, "message")]
  /\ tasks' = IF t.flag THEN tasks (-) One(t) ELSE DirtyGets(tasks (-) One(t))
  /\ gd' = IF t.flag THEN gd ELSE OtherWrite(gd)
  /\ sweep' = Disturbed(sweep)
  /\ UNCHANGED <<lifecycle, inst, act, now, steps, nEvents, serverVersion, last,
                 sync, msg>>

----------------------------------------------------------------------------
(* getStoredGameData, lines 184-198 *)

\* lines 187-197: the record parsed from the entry, null without an entry or
\* when json() throws
StoredGameData(cache) ==
  IF GAME_DATA \in DOMAIN cache
  THEN LET parsed == Parse(cache[GAME_DATA].resp.body)
       IN IF parsed = ParseError THEN JNull ELSE parsed
  ELSE JNull

\* cache.match resolves, the body is parsed and {data} is posted to ports[0]
GetMatch(t) ==
  /\ t.kind = "get" /\ t.pc = "match"
  /\ last' = Out("data", NoReq, NoResp,
                 StoredGameData(Open(caches, CACHE_NAME)[CACHE_NAME]),
                 IF t.flag THEN NoPayload ELSE t.data, FALSE, FALSE)
  /\ tasks' = tasks (-) One(t)
  /\ UNCHANGED <<caches, lifecycle, inst, act, sweep, now, steps, nEvents,
                 serverVersion, gd,
                 sync, msg>>

----------------------------------------------------------------------------
(* fetch listener, lines 61-103 *)

\* a filter without the method guard of lines 63-65
InterceptsAnyMethod(req) ==
  \/ StartsWith(req.url, <<SELF>>)
  \/ Includes(req.url, FONTS_HOST)
  \/ Includes(req.url, CDN_HOST)

\* lines 63-72: the request is handled (respondWith is called) when it is a GET
\* whose URL starts with the worker's origin or contains an allow-listed host
Intercepts(req) ==
  /\ req.method = "GET"
  /\ \/ StartsWith(req.url, <<SELF>>)
     \/ Includes(req.url, FONTS_HOST)
     \/ Includes(req.url, CDN_HOST)

\* a network-first strategy: fetch(event.request) whatever the lookup gave
AfterMatchNetworkFirst(hit) == "net"

\* line 78: response || fetch(event.request)
AfterMatch(hit) == IF hit THEN "respond" ELSE "net"

\* a test that looks at the type only
CacheableAnyStatus(r) == r.type = "basic"

\* line 80: a network response is stored only when it is a 200 of type basic
Cacheable(r) == r.status = 200 /\ r.type = "basic"

Respond(req, from, r, hit, netFailed) ==
  Out(from, req, r, NoPayload, NoPayload, hit, netFailed)

\* a fetch event is dispatched to the active worker; the handler either returns
\* (the request passes through) or calls respondWith(caches.match(request)...)
FetchEventOf(requests) ==
  /\ lifecycle = "activated" /\ nEvents < MaxEvents
  /\ nEvents' = nEvents + 1
  /\ \E req \in requests :
       IF Intercepts(req)
       THEN /\ InFlight < MaxTasks
            /\ tasks' = tasks (+) One(Task("fetch", "match", req, NoResp, FALSE))
            /\ last' = last
       ELSE /\ last' = Out("passed", req, NoResp, NoPayload, NoPayload, FALSE, FALSE)
            /\ tasks' = tasks
  /\ UNCHANGED <<caches, lifecycle, inst, act, sweep, now, steps, serverVersion, gd,
                 sync, msg>>

FetchEvent == FetchEventOf(Requests)

\* caches.match(event.request) resolves: a hit is the response, a miss goes to
\* the network
FetchMatch(t) ==
  /\ t.kind = "fetch" /\ t.pc = "match"
  /\ LET hit == HasMatch(caches, t.req.url) IN
     IF AfterMatch(hit) = "respond"
     THEN /\ last' = Respond(t.req, "cache",
                             IF hit THEN CachesMatch(caches, t.req.url) ELSE NoResp,
                             hit, FALSE)
          /\ tasks' = tasks (-) One(t)
     ELSE /\ tasks' = (tasks (-) One(t)) (+) One([t EXCEPT !.pc = "net", !.flag = hit])
          /\ last' = last
  /\ UNCHANGED <<caches, lifecycle, inst, act, sweep, now, steps, nEvents,
                 serverVersion, gd,
                 sync, msg>>

\* fetch(event.request) settles.  A response that is not cacheable is returned
\* as it is; a cacheable one is returned and its clone is put, not awaited;
\* a rejection reaches .catch: navigations go on to caches.match(OFFLINE_URL),
\* other requests get undefined
FetchNet(t) ==
  /\ t.kind = "fetch" /\ t.pc = "net"
  /\ \E outcome \in {"ok", "notfound", "fail"} :
       LET r == IF outcome = "ok"
                THEN NetOk(t.req.url, t.req.mode, serverVersion, now)
                ELSE NetNotFound(t.req.url, now)
       IN
       IF outcome = "fail"
       THEN IF t.req.mode = "navigate"
            THEN /\ tasks' = (tasks (-) One(t)) (+) One([t EXCEPT !.pc = "fallback"])
                 /\ last' = last
            ELSE /\ tasks' = tasks (-) One(t)
                 /\ last' = Respond(t.req, "undefined", NoResp, t.flag, TRUE)
       ELSE /\ last' = Respond(t.req, "network", r, t.flag, FALSE)
            /\ tasks' = IF Cacheable(r)
                        THEN (tasks (-) One(t)) (+) One([t EXCEPT !.pc = "put", !.data = r])
                        ELSE tasks (-) One(t)
  /\ UNCHANGED <<caches, lifecycle, inst, act, sweep, now, steps, nEvents,
                 serverVersion, gd,
                 sync, msg>>

\* lines 98-100: caches.match(OFFLINE_URL) resolves, with the entry or undefined
FetchFallback(t) ==
  /\ t.kind = "fetch" /\ t.pc = "fallback"
  /\ last' = IF HasMatch(caches, OFFLINE_URL)
             THEN Respond(t.req, "fallback", CachesMatch(caches, OFFLINE_URL), t.flag, TRUE)
             ELSE Respond(t.req, "undefined", NoResp, t.flag, TRUE)
  /\ tasks' = tasks (-) One(t)
  /\ UNCHANGED <<caches, lifecycle, inst, act, sweep, now, steps, nEvents,
                 serverVersion, gd,
                 sync, msg>>

\* a put that is dropped: the task ends and the store is as it was
FetchPutDropped(t) ==
  /\ t.kind = "fetch" /\ t.pc = "put"
  /\ tasks' = tasks (-) One(t)
  /\ UNCHANGED <<caches, lifecycle, inst, act, sweep, now, steps, nEvents,
                 serverVersion, last, gd, sync, msg>>

\* lines 88-91: caches.open(CACHE_NAME) then cache.put(event.request, clone)
\* completes, after the response was returned
FetchPut(t) ==
  /\ t.kind = "fetch" /\ t.pc = "put"
  /\ caches' = [Open(caches, CACHE_NAME) EXCEPT ![CACHE_NAME] =
                  Put(@, t.req.url, t.data, now, "fetch")]
  /\ tasks' = IF t.req.url = GAME_DATA THEN DirtyGets(tasks (-) One(t))
              ELSE tasks (-) One(t)
  /\ gd' = IF t.req.url = GAME_DATA THEN OtherWrite(gd) ELSE gd
  /\ sweep' = Disturbed(sweep)
  /\ UNCHANGED <<lifecycle, inst, act, now, steps, nEvents, serverVersion, last,
                 sync, msg>>

----------------------------------------------------------------------------
(* cleanupOldData, lines 313-337 *)

\* cache.keys() lists the requests in insertion order: the assets in the order
\* of STATIC_ASSETS, then what was stored later
KeyOrder == STATIC_ASSETS \o <<GAME_DATA, U_PLAY>>

Keys(cache) == SelectSeq(KeyOrder, LAMBDA u : u \in DOMAIN cache)

\* line 327: new Date(response.headers.get('date') || 0).getTime()
DateOf(r) == IF r.date = <<>> THEN 0 ELSE r.date[1]

\* line 329
Expired(r, t) == t - DateOf(r) > maxAge

\* the daily timer fires: caches.open(CACHE_NAME), then cache.keys() is issued
CleanupStart ==
  /\ lifecycle = "activated" /\ nEvents < MaxEvents
  /\ sweep.pc = "idle" /\ InFlight < MaxTasks
  /\ nEvents' = nEvents + 1
  /\ sweep' = [pc |-> "keys", todo |-> <<>>,
               streak |-> IF sweep.streak \in {"done1", "done2"} THEN "in2" ELSE "in1",
               removed |-> IF sweep.streak \in {"done1", "done2"} THEN sweep.removed
                           ELSE FALSE]
  /\ UNCHANGED <<caches, lifecycle, inst, act, tasks, now, steps, serverVersion,
                 last, gd,
                 sync, msg>>

Finished(sw) ==
  [sw EXCEPT !.pc = "idle", !.todo = <<>>,
             !.streak = IF @ = "in1" THEN "done1" ELSE IF @ = "in2" THEN "done2" ELSE @]

\* cache.keys() resolves; Date.now() is read; the loop starts
CleanupKeys ==
  /\ sweep.pc = "keys"
  /\ LET requests == Keys(Open(caches, CACHE_NAME)[CACHE_NAME]) IN
     sweep' = IF requests = <<>> THEN Finished(sweep)
              ELSE [sweep EXCEPT !.pc = "match", !.todo = requests]
  /\ UNCHANGED <<caches, lifecycle, inst, act, tasks, now, steps, nEvents,
                 serverVersion, last, gd,
                 sync, msg>>

\* line 325: the loop goes on with the next request, or ends
Advance(sw) ==
  IF Len(sw.todo) = 1 THEN Finished(sw)
  ELSE [sw EXCEPT !.pc = "match", !.todo = Tail(@)]

\* a loop that loses its place after a deletion: the next request is skipped
AfterDeleteSkipping(sw) ==
  IF Len(sw.todo) <= 2 THEN Finished(sw)
  ELSE [sw EXCEPT !.pc = "match", !.todo = Tail(Tail(@))]

\* lines 330-332: after cache.delete the loop goes on with the next request
AfterDelete(sw) == Advance(sw)

\* cache.match(request) resolves; an entry that is gone makes response.headers
\* throw, which ends the pass in the catch; an expired entry gets cache.delete
CleanupMatch ==
  /\ sweep.pc = "match"
  /\ LET request == Head(sweep.todo)
         cache == Open(caches, CACHE_NAME)[CACHE_NAME]
     IN sweep' = IF request \notin DOMAIN cache
                 THEN Disturbed([sweep EXCEPT !.pc = "idle", !.todo = <<>>])
                 ELSE IF Expired(cache[request].resp, now)
                 THEN [sweep EXCEPT !.pc = "delete"]
                 ELSE Advance(sweep)
  /\ UNCHANGED <<caches, lifecycle, inst, act, tasks, now, steps, nEvents,
                 serverVersion, last, gd,
                 sync, msg>>

\* cache.delete(request) completes
CleanupDelete ==
  /\ sweep.pc = "delete"
  /\ LET request == Head(sweep.todo) IN
     /\ caches' = [Open(caches, CACHE_NAME) EXCEPT ![CACHE_NAME] = Delete(@, request)]
     /\ sweep' = AfterDelete([sweep EXCEPT !.removed =
                            @ \/ (sweep.streak = "in1" /\ request \in DOMAIN caches[CACHE_NAME])])
     /\ tasks' = IF request = GAME_DATA THEN DirtyGets(tasks) ELSE tasks
     /\ gd' = IF request = GAME_DATA THEN OtherWrite(gd) ELSE gd
  /\ UNCHANGED <<lifecycle, inst, act, now, steps, nEvents, serverVersion, last,
                 sync, msg>>

----------------------------------------------------------------------------
(* The clock *)

\* time passes while the worker is at rest (a task takes far less than an hour)
Tick ==
  /\ lifecycle = "activated"
  /\ tasks = EmptyBag /\ sweep.pc = "idle"
  /\ \E d \in steps :
       /\ now' = now + d
       /\ steps' = steps \ {d}
  /\ sweep' = Disturbed(sweep)
  /\ UNCHANGED <<caches, lifecycle, inst, act, tasks, nEvents, serverVersion,
                 last, gd,
                 sync, msg>>

----------------------------------------------------------------------------
Next ==
  \/ InstallStart
  \/ InstallOpen
  \/ InstallAddAll
  \/ ActivateStart
  \/ ActivateKeys
  \/ ActivateDelete
  \/ ActivateClaim
  \/ MsgSkipWaiting
  \/ MsgGetVersion
  \/ MsgUnknown
  \/ MsgStore
  \/ MsgGet
  \/ \E t \in Tasks : StorePut(t) \/ GetMatch(t)
  \/ FetchEvent
  \/ \E t \in Tasks : FetchMatch(t) \/ FetchNet(t) \/ FetchFallback(t) \/ FetchPut(t)
  \/ CleanupStart
  \/ CleanupKeys
  \/ CleanupMatch
  \/ CleanupDelete
  \/ Tick

Spec == Init /\ [][Next]_vars

----------------------------------------------------------------------------
(* sync listener and doBackgroundSync, lines 106-111 and 166-254 *)

\* the versions the origin server may deploy
Versions == {"1.0.0", "2.0.0"}

\* line 234: CACHE_NAME.split('-v')[1]
currentVersion == "1.0.0"

\* line 169: if (gameData), the truthiness of the record read
Truthy(x) ==
  \/ x.t = "object"
  \/ x.t = "number" /\ x.v \notin {"0", "NaN"}
  \/ x.t = "string" /\ x.v # ""

\* lines 232-233: manifestData.version of a cached manifest body: the value of
\* the version field, undefined without the field, a throw when it is no JSON
ManifestVersion(body) ==
  IF Parse(body) = ParseError \/ Len(body) = 0 THEN "SyntaxError"
  ELSE IF Len(body) = 5 /\ body[2] = "\"version\"" THEN body[4]
  ELSE "undefined"

\* a check that notifies whatever the manifest says
NotifiesOnEveryCheck(version) == TRUE

\* line 236: manifestData.version !== currentVersion
ShouldNotify(version) == version # currentVersion

\* lines 170-175: syncGameProgress catches its errors and reads response.ok only
\* to log, so doBackgroundSync goes on to checkForUpdates however the POST ended
AfterPost(outcome) == "manifest"

\* a sync event is dispatched to the active worker; with the tag
\* 'background-sync' a cycle starts: getStoredGameData issues its cache.match
SyncEvent ==
  /\ lifecycle = "activated" /\ nEvents < MaxEvents
  /\ sync.pc \in {"idle", "done"}
  /\ nEvents' = nEvents + 1
  /\ \E tag \in {"background-sync", "other-tag"} :
       sync' = IF tag = "background-sync"
               THEN SyncCycle("read", NoPayload, "none", "unread", 0)
               ELSE sync
  /\ UNCHANGED <<caches, lifecycle, inst, act, tasks, sweep, now, steps,
                 serverVersion, last, gd, msg>>

\* getStoredGameData resolves; a truthy record is POSTed to /api/sync-progress,
\* otherwise the cycle goes straight to checkForUpdates
SyncRead ==
  /\ sync.pc = "read"
  /\ LET gameData == StoredGameData(Open(caches, CACHE_NAME)[CACHE_NAME]) IN
     sync' = IF Truthy(gameData)
             THEN [sync EXCEPT !.pc = "post", !.data = gameData]
             ELSE [sync EXCEPT !.pc = "manifest", !.data = gameData,
                               !.post = "skipped"]
  /\ UNCHANGED <<caches, lifecycle, inst, act, tasks, sweep, now, steps, nEvents,
                 serverVersion, last, gd, msg>>

\* the POST settles: a 2xx response, another response, or a network error
SyncPost ==
  /\ sync.pc = "post"
  /\ \E outcome \in {"ok", "fail", "error"} :
       sync' = [sync EXCEPT !.pc = AfterPost(outcome), !.post = outcome]
  /\ UNCHANGED <<caches, lifecycle, inst, act, tasks, sweep, now, steps, nEvents,
                 serverVersion, last, gd, msg>>

\* checkForUpdates: cache.match('/manifest.json') resolves; a cached manifest
\* is parsed and compared, and showNotification is called on a difference
SyncManifest ==
  /\ sync.pc = "manifest"
  /\ LET cache == Open(caches, CACHE_NAME)[CACHE_NAME] IN
     IF U_MANIFEST \in DOMAIN cache
     THEN LET version == ManifestVersion(cache[U_MANIFEST].resp.body) IN
          sync' = [sync EXCEPT !.pc = "done", !.manifest = version,
                     !.notified = IF version # "SyntaxError" /\ ShouldNotify(version)
                                  THEN @ + 1 ELSE @]
     ELSE sync' = [sync EXCEPT !.pc = "done", !.manifest = "absent"]
  /\ UNCHANGED <<caches, lifecycle, inst, act, tasks, sweep, now, steps, nEvents,
                 serverVersion, last, gd, msg>>

\* the worker of version 1.0.0 against a server that deploys either version
SyncInit ==
  /\ caches = InitialStores
  /\ lifecycle = "parsed"
  /\ inst = [anyFailed |-> FALSE, promise |-> "pending", skipWaiting |-> FALSE]
  /\ act = [seen |-> {}, todo |-> {}]
  /\ tasks = EmptyBag
  /\ sweep = [pc |-> "idle", todo |-> <<>>, streak |-> "none", removed |-> FALSE]
  /\ now = StartClock
  /\ steps = ClockSteps
  /\ nEvents = 0
  /\ serverVersion \in Versions
  /\ last = Out("none", NoReq, NoResp, NoPayload, NoPayload, FALSE, FALSE)
  /\ gd = [sent |-> NoPayload, dirty |-> FALSE]
  /\ sync = NoSync
  /\ msg = NoMsg

SyncNext ==
  \/ InstallStart
  \/ InstallOpen
  \/ InstallAddAll
  \/ ActivateStart
  \/ ActivateKeys
  \/ ActivateDelete
  \/ ActivateClaim
  \/ MsgStore
  \/ \E t \in Tasks : StorePut(t)
  \/ SyncEvent
  \/ SyncRead
  \/ SyncPost
  \/ SyncManifest

SyncSpec == SyncInit /\ [][SyncNext]_vars

----------------------------------------------------------------------------
(* message listener on any message event, lines 266-293 *)

\* the message events pages send: with and without data, type, gameData and
\* reply port
Messages ==
  { Message(FALSE, "", JUndefined, FALSE),
    Message(TRUE, "", JObj, TRUE),
    Message(TRUE, "SKIP_WAITING", JUndefined, FALSE),
    Message(TRUE, "GET_VERSION", JUndefined, TRUE),
    Message(TRUE, "GET_VERSION", JUndefined, FALSE),
    Message(TRUE, "STORE_GAME_DATA", JObj, FALSE),
    Message(TRUE, "STORE_GAME_DATA", JUndefined, FALSE),
    Message(TRUE, "GET_STORED_DATA", JUndefined, TRUE),
    Message(TRUE, "GET_STORED_DATA", JUndefined, FALSE),
    Message(TRUE, "PING", JObj, TRUE),
    Message(TRUE, "PING", JUndefined, FALSE) }

\* a switch whose unknown types are answered like GET_VERSION
DispatchAnswering(m) ==
  IF ~(m.data /\ m.type # "") THEN "none"
  ELSE IF m.type \in {"SKIP_WAITING", "STORE_GAME_DATA", "GET_STORED_DATA"}
  THEN m.type
  ELSE "GET_VERSION"

\* lines 269-290: the branch taken; no branch without data or with a falsy type
Dispatch(m) ==
  IF ~(m.data /\ m.type # "") THEN "none"
  ELSE IF m.type \in {"SKIP_WAITING", "GET_VERSION", "STORE_GAME_DATA",
                      "GET_STORED_DATA"}
  THEN m.type
  ELSE "default"

\* what the listener lets out when it throws, or when a promise it left
\* without a handler rejects
Raised(error) == Out(error, NoReq, NoResp, NoPayload, NoPayload, FALSE, FALSE)

\* the listener runs on a message event.  event.ports[0] is undefined when the
\* message came without a port: event.ports[0].postMessage then throws a
\* TypeError, out of the listener for GET_VERSION, inside the then-callback
\* for GET_STORED_DATA
OnMessage ==
  /\ Reachable /\ nEvents < MaxEvents
  /\ nEvents' = nEvents + 1
  /\ \E m \in Messages :
       LET branch == Dispatch(m) IN
       /\ msg' = m
       /\ branch \in {"STORE_GAME_DATA", "GET_STORED_DATA"} => InFlight < MaxTasks
       /\ inst' = IF branch = "SKIP_WAITING" THEN [inst EXCEPT !.skipWaiting = TRUE]
                  ELSE inst
       /\ last' = IF branch = "GET_VERSION"
                  THEN IF m.port
                       THEN Out("version", NoReq, NoResp, JVal("string", CACHE_NAME),
                                NoPayload, FALSE, FALSE)
                       ELSE Raised("TypeError")
                  ELSE last
       /\ tasks' = IF branch = "STORE_GAME_DATA"
                   THEN DirtyGets(Superseded(tasks))
                          (+) One(Task("store", "put", NoReq, m.gameData, TRUE))
                   ELSE IF branch = "GET_STORED_DATA"
                   THEN tasks (+) One(Task(IF m.port THEN "get" ELSE "get-no-port",
                                           "match", NoReq, gd.sent, gd.dirty))
                   ELSE tasks
       /\ gd' = IF branch = "STORE_GAME_DATA" THEN [sent |-> m.gameData, dirty |-> FALSE]
                ELSE gd
  /\ UNCHANGED <<caches, lifecycle, act, sweep, now, steps, serverVersion, sync>>

\* getStoredGameData resolves for a GET_STORED_DATA that came without a port:
\* the then-callback throws and nothing handles the rejection
GetMatchNoPort(t) ==
  /\ t.kind = "get-no-port" /\ t.pc = "match"
  /\ last' = Raised("unhandledrejection")
  /\ tasks' = tasks (-) One(t)
  /\ UNCHANGED <<caches, lifecycle, inst, act, sweep, now, steps, nEvents,
                 serverVersion, gd, sync, msg>>

ControlNext ==
  \/ InstallStart
  \/ InstallOpen
  \/ InstallAddAll
  \/ ActivateStart
  \/ ActivateKeys
  \/ ActivateDelete
  \/ ActivateClaim
  \/ OnMessage
  \/ \E t \in Tasks : StorePut(t) \/ GetMatch(t) \/ GetMatchNoPort(t)

ControlSpec == Init /\ [][ControlNext]_vars

----------------------------------------------------------------------------
(* cleanupOldData when the store fails, lines 317-337 *)

\* cache.delete(request) rejects: the error leaves the for loop and reaches the
\* catch of lines 334-336, which logs; the pass is over
CleanupDeleteFails ==
  /\ sweep.pc = "delete"
  /\ sweep' = Disturbed([sweep EXCEPT !.pc = "idle", !.todo = <<>>])
  /\ UNCHANGED <<caches, lifecycle, inst, act, tasks, now, steps, nEvents,
                 serverVersion, last, gd, sync, msg>>

SweepNext ==
  \/ InstallStart
  \/ InstallOpen
  \/ InstallAddAll
  \/ ActivateStart
  \/ ActivateKeys
  \/ ActivateDelete
  \/ ActivateClaim
  \/ Tick
  \/ CleanupStart
  \/ CleanupKeys
  \/ CleanupMatch
  \/ CleanupDelete
  \/ CleanupDeleteFails

SweepSpec == Init /\ [][SweepNext]_vars

----------------------------------------------------------------------------
(* fetch listener on any request, lines 61-103 *)

\* requests of foreign origins whose URL holds an allow-listed host name or
\* starts with the text of the worker's origin, and a GET of the record's key
OtherRequests ==
  { Req("GET", U_EVIL_QUERY, "no-cors"),
    Req("GET", U_SUFFIX, "cors"),
    Req("GET", GAME_DATA, "cors") }

FetchEventAny == FetchEventOf(Requests \cup OtherRequests)

FetchNext ==
  \/ InstallStart
  \/ InstallOpen
  \/ InstallAddAll
  \/ ActivateStart
  \/ ActivateKeys
  \/ ActivateDelete
  \/ ActivateClaim
  \/ MsgStore
  \/ \E t \in Tasks : StorePut(t)
  \/ FetchEventAny
  \/ \E t \in Tasks : FetchMatch(t) \/ FetchNet(t) \/ FetchFallback(t) \/ FetchPut(t)

\* a cache.put that was issued completes: the event loop runs the promise
\* chain of lines 88-91 to its end
FetchSpec ==
  Init /\ [][FetchNext]_vars /\ WF_vars(\E t \in Tasks : FetchPut(t))

----------------------------------------------------------------------------
(* Properties *)

\* the active store
Cache == caches[CACHE_NAME]

ResponseKinds == {"cache", "network", "fallback", "undefined"}

\* a step of the sweeper's loop on the request at the head of its list
SweeperStep ==
  /\ sweep.pc \in {"match", "delete"}
  /\ sweep'.pc # sweep.pc \/ sweep'.todo # sweep.todo

\* C1: cache precedence.  When the lookup of an intercepted GET request finds
\* an entry for the request, the handler responds with that stored entry, no
\* network fetch is started for the request and the cache is not written.
C1_CachePrecedence ==
  [][\A t \in Tasks :
       ( /\ t.kind = "fetch" /\ t.pc = "match"
         /\ HasMatch(caches, t.req.url)
         /\ CopiesIn(t, tasks') < CopiesIn(t, tasks) )
       => /\ last' = Respond(t.req, "cache", CachesMatch(caches, t.req.url), TRUE, FALSE)
          /\ tasks' = tasks (-) One(t)
          /\ caches' = caches]_vars

\* C1 happens: a navigation to the precached page was answered from the cache
C1_Witness ==
  /\ lifecycle = "activated"
  /\ last.kind = "cache" /\ last.hit
  /\ last.req = Req("GET", U_INDEX, "navigate")
  /\ last.resp.body = NetBody(U_INDEX, serverVersion)

\* C2: once the activate handler has completed, no store with a name other
\* than CACHE_NAME exists, whatever the worker does afterwards.
C2_OnlyCurrentStore ==
  lifecycle = "activated" => \A n \in DOMAIN caches : n = CACHE_NAME

\* C2 happens: both old stores were there at activation, and afterwards a
\* fetched page was written and a sweep has run
C2_Witness ==
  /\ lifecycle = "activated"
  /\ {OLD_CACHE, OLDER_CACHE} \subseteq act.seen
  /\ U_PLAY \in DOMAIN Cache
  /\ sweep.streak = "done1"

\* C3: round trip.  The reply to a GET_STORED_DATA that follows a
\* STORE_GAME_DATA carrying the JSON payload d, with no other write to the
\* record in between, carries a value equal to d.
C3_RoundTrip ==
  (last.kind = "data" /\ IsJSON(last.expect)) => last.data = last.expect

\* C4: install failure is reported.  When the waitUntil promise of install has
\* settled, it is rejected if an asset could not be fetched, and resolved only
\* if every asset was cached.
C4_InstallFailureReported ==
  inst.promise # "pending" => (inst.promise = "rejected" <=> inst.anyFailed)

\* C5: atomic rollback.  After an install on a new store in which the fetch of
\* some asset failed, the CACHE_NAME store holds none of the listed assets.
C5_AtomicRollback ==
  (lifecycle \in {"installed", "activating", "deleting"} /\ inst.anyFailed)
    => \A u \in Range(STATIC_ASSETS) : u \notin DOMAIN Cache

\* C5 happens: the install has failed and the store it opened is there
C5_Witness ==
  /\ lifecycle = "installed"
  /\ inst.anyFailed
  /\ CACHE_NAME \in DOMAIN caches
  /\ DOMAIN Cache = {}

\* C6: offline fallback.  After a successful install, a navigation that missed
\* the cache and whose network fetch failed is answered with the offline
\* fallback document.
C6_OfflineFallback ==
  ( /\ last.kind \in ResponseKinds
    /\ last.req.mode = "navigate"
    /\ ~last.hit /\ last.netFailed
    /\ ~inst.anyFailed )
  => /\ last.kind = "fallback"
     /\ last.resp.status = 200
     /\ last.resp.body = NetBody(OFFLINE_URL, serverVersion)

\* C7: a request whose method is not GET is never looked up in the cache nor
\* answered by the handler: no lookup is in flight for it and no response was
\* given for it; it passes through.
C7_NonGetUntouched ==
  /\ \A t \in Tasks : t.kind = "fetch" => t.req.method = "GET"
  /\ last.kind \in ResponseKinds => last.req.method = "GET"
  /\ (last.kind = "passed" /\ last.req.method # "GET") => last.resp = NoResp

\* C7 happens: a POST to the worker's own origin passed through while the
\* store held the precached assets
C7_Witness ==
  /\ lifecycle = "activated"
  /\ last.kind = "passed"
  /\ last.req = Req("POST", U_PLAY, "cors")
  /\ U_INDEX \in DOMAIN Cache

\* C8: eviction boundary.  A step of the sweeper on an entry written at T
\* leaves it in the store when the clock is at most T + 6 days 23 hours, and
\* removes it when the clock is at least T + 7 days 1 hour.
C8_EvictionBoundary ==
  [][(SweeperStep /\ Head(sweep.todo) \in DOMAIN Cache)
     => LET u == Head(sweep.todo)
            age == now - Cache[u].storedAt
        IN /\ age <= maxAge - 1 => (sweep'.pc # "delete" /\ u \in DOMAIN Cache')
           /\ age >= maxAge + 1 =>
                IF sweep.pc = "match" THEN sweep'.pc = "delete"
                ELSE u \notin DOMAIN Cache']_vars

\* C9: the sweeper never deletes the ProgressRecord.  A step of the sweeper
\* leaves the entry written by STORE_GAME_DATA under '/game-data' in the
\* store, unchanged.
C9_SweeperKeepsProgressRecord ==
  [][( /\ SweeperStep
       /\ GAME_DATA \in DOMAIN Cache
       /\ Cache[GAME_DATA].by = "message" )
     => /\ GAME_DATA \in DOMAIN Cache'
        /\ Cache'[GAME_DATA] = Cache[GAME_DATA]]_vars

\* C10: sweep idempotence.  While a pass of the sweeper runs that follows a
\* completed pass with no write in between (and the clock where it was), no
\* step changes the store: the second pass deletes nothing.
C10_SweepIdempotent ==
  [][(sweep.streak = "in2" /\ sweep'.streak \in {"in2", "done2"})
     => caches' = caches]_vars

\* C10 happens: the first pass removed entries, the second pass went through
\* the entries that were left and has completed
C10_Witness ==
  /\ sweep.pc = "idle" /\ sweep.streak = "done2"
  /\ sweep.removed
  /\ DOMAIN Cache # {}

\* C11: in a completed cycle of doBackgroundSync that read a manifest whose
\* version field differs from the active version, exactly one update
\* notification was shown; in one that read an equal version, none was.
C11_OneNotificationPerCycle ==
  (sync.pc = "done" /\ sync.manifest \notin {"unread", "absent", "SyntaxError"})
    => sync.notified = (IF sync.manifest # currentVersion THEN 1 ELSE 0)

\* C11 happens: a cycle that pushed the record read the manifest of version
\* 2.0.0 and has notified once
C11_Witness ==
  /\ sync.pc = "done"
  /\ sync.post = "ok" /\ sync.data = JObj
  /\ sync.manifest = "2.0.0"
  /\ sync.notified = 1

\* C12: when the POST of the record ends in a non-success response or a
\* network error, the cycle ends at that step, with the store as it was, and a
\* cycle whose POST failed compares no manifest and shows no notification.
C12_AbandonOnFailedPost ==
  /\ [][(sync.pc = "post" /\ sync'.post \in {"fail", "error"})
          => (sync'.pc = "done" /\ caches' = caches)]_vars
  /\ [](sync.post \in {"fail", "error"}
          => (sync.manifest = "unread" /\ sync.notified = 0))

\* the types the message listener knows
ControlTypes == {"SKIP_WAITING", "GET_VERSION", "STORE_GAME_DATA", "GET_STORED_DATA"}

\* C13: the listener's run on a message whose type is none of the four known
\* types changes nothing: the stores, the record's history, the lifecycle and
\* skipWaiting status are as before, nothing is posted or raised, and no task
\* is started.
C13_UnknownTypeIgnored ==
  [][(nEvents' # nEvents /\ msg'.data /\ msg'.type \notin ControlTypes \cup {""})
       => UNCHANGED <<caches, gd, lifecycle, inst, last, tasks, sweep, sync>>]_vars

\* C13 happens: a message of type PING was the last of the messages handled,
\* after the record was stored, and no task is left in flight
C13_Witness ==
  /\ msg = Message(TRUE, "PING", JObj, TRUE)
  /\ nEvents = MaxEvents
  /\ GAME_DATA \in DOMAIN Cache
  /\ tasks = EmptyBag

\* C18: no message makes the listener throw, and none leaves a rejected
\* promise without a handler.
C18_NoMessageCrashes ==
  last.kind \notin {"TypeError", "unhandledrejection"}

\* C14: a failed deletion does not abort the sweep.  When a pass ends, no
\* entry that was still on its list is older than the retention window: the
\* entries after a failed one were gone through, and the old ones deleted.
C14_SweepSurvivesFailure ==
  [][(sweep.pc \in {"match", "delete"} /\ sweep'.pc = "idle")
       => \A u \in Range(Tail(sweep.todo)) :
            u \in DOMAIN Cache' => now - Cache'[u].storedAt <= maxAge]_vars

\* C15: activation ordering.  The step that calls clients.claim() is taken
\* only when every store named otherwise than CACHE_NAME that the handler saw
\* has been deleted, and while such a store exists no intercepted request is
\* in flight and the worker is not the active one.
C15_ClaimAfterDeletions ==
  /\ [][(lifecycle # "activated" /\ lifecycle' = "activated")
          => (act.todo = {} /\ \A n \in act.seen : n # CACHE_NAME => n \notin DOMAIN caches)]_vars
  /\ []((\E n \in DOMAIN caches : n # CACHE_NAME)
          => (lifecycle # "activated" /\ \A t \in Tasks : t.kind # "fetch"))

\* C15 happens: the handler saw both old stores, deleted them, claimed the
\* clients, and a request is being routed
C15_Witness ==
  /\ lifecycle = "activated"
  /\ {OLD_CACHE, OLDER_CACHE} \subseteq act.seen
  /\ DOMAIN caches = {CACHE_NAME}
  /\ \E t \in Tasks : t.kind = "fetch" /\ t.pc = "match"

\* the GET requests the pages make
GetRequests == {r \in Requests \cup OtherRequests : r.method = "GET"}

\* the URL is of one of the two allow-listed hosts
AllowListedOrigin(url) == url[1] = "https://" /\ url[2] \in {FONTS_HOST, CDN_HOST}

\* C16: fetch-and-populate.  When a network response is cacheable, the step
\* that hands it to the caller leaves the store as it was and only issues the
\* put; a put that was issued leads to the entry being in the CACHE_NAME store;
\* and a later lookup of the same request that finds the entry written by
\* interception is answered with it.
C16_FetchAndPopulate ==
  /\ [][\A t \in BagToSet(tasks') :
          (t.kind = "fetch" /\ t.pc = "put" /\ CopiesIn(t, tasks') > CopiesIn(t, tasks))
            => /\ Cacheable(t.data)
               /\ last' = Respond(t.req, "network", t.data, FALSE, FALSE)
               /\ caches' = caches]_vars
  /\ \A r \in GetRequests :
       (\E t \in Tasks : t.kind = "fetch" /\ t.pc = "put" /\ t.req = r)
         ~> (CACHE_NAME \in DOMAIN caches /\ r.url \in DOMAIN Cache)
  /\ [][\A t \in Tasks :
          ( /\ t.kind = "fetch" /\ t.pc = "match"
            /\ CopiesIn(t, tasks') < CopiesIn(t, tasks)
            /\ DOMAIN caches = {CACHE_NAME}
            /\ t.req.url \in DOMAIN Cache /\ Cache[t.req.url].by = "fetch" )
          => last' = Respond(t.req, "cache", Cache[t.req.url].resp, TRUE, FALSE)]_vars

\* C16 happens: /play was fetched from the network and written by
\* interception, and a second request for it was answered from the store
C16_Witness ==
  /\ lifecycle = "activated"
  /\ U_PLAY \in DOMAIN Cache /\ Cache[U_PLAY].by = "fetch"
  /\ last = Respond(Req("GET", U_PLAY, "navigate"), "cache", Cache[U_PLAY].resp, TRUE, FALSE)

\* C17: entry-creation invariant.  Every entry written by request
\* interception holds a response of status 200 that is not opaque and is of
\* type basic or of an allow-listed origin, and every put in flight is for a
\* GET request and such a response.
C17_EntryCreation ==
  /\ CACHE_NAME \in DOMAIN caches =>
       \A u \in DOMAIN Cache :
          Cache[u].by = "fetch" =>
             /\ Cache[u].resp.status = 200
             /\ Cache[u].resp.type # "opaque"
             /\ Cache[u].resp.type = "basic" \/ AllowListedOrigin(u)
  /\ \A t \in Tasks :
       (t.kind = "fetch" /\ t.pc = "put") =>
          /\ t.req.method = "GET"
          /\ t.data.status = 200
          /\ t.data.type = "basic" \/ AllowListedOrigin(t.req.url)

\* C17 happens: /play was written by interception, and an opaque response of
\* a foreign origin was returned to the caller and is not in the store
C17_Witness ==
  /\ lifecycle = "activated"
  /\ U_PLAY \in DOMAIN Cache /\ Cache[U_PLAY].by = "fetch"
  /\ last.kind = "network" /\ last.resp.type = "opaque"
  /\ last.req.url \notin DOMAIN Cache

\* C19: origin filter.  No lookup, fetch or put is in flight, and no response
\* was given, for a GET request whose origin is neither the worker's own nor
\* one of the two allow-listed hosts.
C19_OriginFilter ==
  /\ \A t \in Tasks :
       t.kind = "fetch" => (SameOrigin(t.req.url) \/ AllowListedOrigin(t.req.url))
  /\ last.kind \in ResponseKinds
       => (SameOrigin(last.req.url) \/ AllowListedOrigin(last.req.url))

\* C20: the entry under '/game-data', when there is one, was written by
\* STORE_GAME_DATA and holds the text of a payload sent with it.
C20_RecordKeyReserved ==
  (CACHE_NAME \in DOMAIN caches /\ GAME_DATA \in DOMAIN Cache)
    => /\ Cache[GAME_DATA].by = "message"
       /\ \E d \in Payloads : Cache[GAME_DATA].resp = GameDataResponse(d)

====
